---- MODULE Spec2Model ----
(***************************************************************************)
(* Model of src/src/Image_Processing_Tools.py: ConfigLoader (load_config,  *)
(* validate_config), ImageProcessor (adjust_image_size, cut_image,         *)
(* process_image) and main.                                                *)
(*                                                                         *)
(* Two specifications share the module:                                    *)
(*   Spec      one run of main() over every modelled configuration file    *)
(*             and image file;                                             *)
(*   SpecProc  the ImageProcessor methods called directly on bounded       *)
(*             buffers with any step >= 1.                                 *)
(***************************************************************************)
EXTENDS Integers, Sequences, FiniteSets, TLC

\* ---------------------------------------------------------------- bounds
\* Largest height and width of a buffer handed to ImageProcessor in SpecProc.
MaxH == 4
MaxW == 4
\* Largest step an ImageProcessor is constructed with in SpecProc.
MaxStep == 3

Max(a, b) == IF a >= b THEN a ELSE b
Min(a, b) == IF a <= b THEN a ELSE b

\* ------------------------------------------------- numpy arrays, PIL images
\* A 2-D uint8 ndarray is [shape |-> <<height, width>>, px |-> pixels], px
\* indexed by <<row, col>> (1-based here, 0-based in numpy) over Grid.
Grid(h, w) == (1..h) \X (1..w)

\* A PIL image of mode "L" is [size |-> <<width, height>>, data |-> pixels],
\* data indexed by <<x, y>> over Raster.
Raster(w, h) == (1..w) \X (1..h)

\* Image.fromarray(arr): width = shape[1], height = shape[0], pixel (x, y) =
\* arr[y, x]. An array with an empty axis gives an image with an empty side
\* (what current Pillow releases do).
fromarray(arr) ==
    [size |-> <<arr.shape[2], arr.shape[1]>>,
     data |-> [xy \in Raster(arr.shape[2], arr.shape[1]) |-> arr.px[<<xy[2], xy[1]>>]]]

\* np.array(image): shape = (height, width), arr[r, c] = pixel (c, r).
np_array(image) ==
    [shape |-> <<image.size[2], image.size[1]>>,
     px |-> [rc \in Grid(image.size[2], image.size[1]) |-> image.data[<<rc[2], rc[1]>>]]]

\* image[:h, :w]: a slice stops at the array's own extent.
Slice(image, h, w) ==
    LET h2 == Min(h, image.shape[1])
        w2 == Min(w, image.shape[2])
    IN  [shape |-> <<h2, w2>>, px |-> [rc \in Grid(h2, w2) |-> image.px[rc]]]

\* np.arange(n) // step % 2 == 0, as a function of the 0-based position.
Mask(n, step) == [i \in 0..(n - 1) |-> ((i \div step) % 2 = 0)]

\* The 0-based positions a boolean index keeps, in increasing order.
Kept(mask, n, want) ==
    SelectSeq([k \in 1..n |-> k - 1], LAMBDA i : mask[i] = want)

\* image[sel] (axis 0) or image[:, sel] (axis 1) for the kept positions sel.
BoolIndex(image, sel, axis) ==
    IF axis = 0
    THEN [shape |-> <<Len(sel), image.shape[2]>>,
          px |-> [rc \in Grid(Len(sel), image.shape[2]) |->
                    image.px[<<sel[rc[1]] + 1, rc[2]>>]]]
    ELSE [shape |-> <<image.shape[1], Len(sel)>>,
          px |-> [rc \in Grid(image.shape[1], Len(sel)) |->
                    image.px[<<rc[1], sel[rc[2]] + 1>>]]]

\* np.concatenate([a, b], axis).
Concat2(a, b, axis) ==
    IF axis = 0
    THEN [shape |-> <<a.shape[1] + b.shape[1], a.shape[2]>>,
          px |-> [rc \in Grid(a.shape[1] + b.shape[1], a.shape[2]) |->
                    IF rc[1] <= a.shape[1] THEN a.px[rc]
                    ELSE b.px[<<rc[1] - a.shape[1], rc[2]>>]]]
    ELSE [shape |-> <<a.shape[1], a.shape[2] + b.shape[2]>>,
          px |-> [rc \in Grid(a.shape[1], a.shape[2] + b.shape[2]) |->
                    IF rc[2] <= a.shape[2] THEN a.px[rc]
                    ELSE b.px[<<rc[1], rc[2] - a.shape[2]>>]]]

\* np.concatenate(arrays, axis) for a non-empty list of arrays.
RECURSIVE concatenate(_, _)
concatenate(arrays, axis) ==
    IF Len(arrays) = 1 THEN arrays[1]
    ELSE Concat2(concatenate(SubSeq(arrays, 1, Len(arrays) - 1), axis),
                 arrays[Len(arrays)], axis)

\* ---------------------------------------------------------- ImageProcessor
\* Mutant: rounds the extents up to the next multiple of step (the slice
\* then stops at the array's own extent).
adjust_image_size_roundup(step, image) ==
    Slice(image, ((image.shape[1] + step - 1) \div step) * step,
                 ((image.shape[2] + step - 1) \div step) * step)

\* ImageProcessor.adjust_image_size
adjust_image_size(step, image) ==
    LET h0 == image.shape[1]
        w0 == image.shape[2]
        w  == (w0 \div step) * step
        h  == (h0 \div step) * step
    IN  Slice(image, h, w)

\* Mutant: the odd bands are put first.
cut_image_oddfirst(step, image0, axis) ==
    LET image == adjust_image_size(step, image0)
        n     == image.shape[axis + 1]
        mask  == Mask(n, step)
    IN  fromarray(Concat2(BoolIndex(image, Kept(mask, n, FALSE), axis),
                          BoolIndex(image, Kept(mask, n, TRUE), axis), axis))

\* Mutant: the buffer is not aligned before it is cut.
cut_image_noalign(step, image, axis) ==
    LET n    == image.shape[axis + 1]
        mask == Mask(n, step)
    IN  fromarray(Concat2(BoolIndex(image, Kept(mask, n, TRUE), axis),
                          BoolIndex(image, Kept(mask, n, FALSE), axis), axis))

\* ImageProcessor.cut_image
cut_image(step, image0, axis) ==
    LET image      == adjust_image_size(step, image0)
        n          == image.shape[axis + 1]
        mask       == Mask(n, step)
        image_np_1 == BoolIndex(image, Kept(mask, n, TRUE), axis)
        image_np_2 == BoolIndex(image, Kept(mask, n, FALSE), axis)
        result_image == concatenate(<<image_np_1, image_np_2>>, axis)
    IN  fromarray(result_image)

\* Mutant: the horizontal variant is cut from the base image, not from the
\* vertical variant.
process_pixels_frombase(step, opened) ==
    LET image_np == adjust_image_size(step, np_array(opened))
        image    == fromarray(image_np)
        vertical_image   == cut_image(step, image_np, 1)
        horizontal_image == cut_image(step, image_np, 0)
    IN  fromarray(concatenate(<<np_array(image), np_array(vertical_image),
                                np_array(horizontal_image)>>, 0))

\* ImageProcessor.process_image, from the opened image on (lines 139-145).
process_pixels(step, opened) ==
    LET image_np == adjust_image_size(step, np_array(opened))
        image    == fromarray(image_np)
        vertical_image   == cut_image(step, image_np, 1)
        horizontal_image == cut_image(step, np_array(vertical_image), 0)
        all_images == concatenate(<<np_array(image), np_array(vertical_image),
                                    np_array(horizontal_image)>>, 0)
    IN  fromarray(all_images)

\* ------------------------------------------------------- pixel contents
\* The pixel contents the buffers and image files are drawn from: a ramp
\* (distinct values while h * w <= 256), a checkerboard and a flat image.
Patterns == {"ramp", "checker", "flat"}

PatternPixel(p, r, c, w) ==
    CASE p = "ramp"    -> ((r - 1) * w + (c - 1)) % 256
      [] p = "checker" -> ((r + c) % 2) * 255
      [] OTHER         -> 7

PatternArray(p, h, w) ==
    [shape |-> <<h, w>>, px |-> [rc \in Grid(h, w) |-> PatternPixel(p, rc[1], rc[2], w)]]


\* ------------------------------------------------------------- file system
\* Longest and shortest side of the image files main() is run on.
MaxLong == 101
MaxShort == 2
\* Largest integer a configuration gives as its step.
MaxStepVal == 3

\* A step value as yaml.safe_load returns it: an int, a str holding a decimal
\* integer ("numstr"), any other str ("badstr"), a finite float (v in tenths),
\* the float .inf, None (null) or a list.
StepValues ==
    [t : {"int"}, v : (-1)..MaxStepVal]
    \cup [t : {"numstr"}, v : 0..MaxStepVal]
    \cup [t : {"float"}, v : {-5, 5, 19, 25}]
    \cup [t : {"badstr", "inf", "none", "list"}, v : {0}]

\* What yaml.safe_load returns for config.yaml: top is the document's type
\* (None for an empty file), nb the type of config['numpy_basics'] ("absent":
\* no such key), has_path / has_step whether numpy_basics holds the key.
NoStep == [t |-> "none", v |-> 0]
Configs ==
    [top : {"none", "list"}, nb : {"absent"}, has_path : {FALSE}, has_step : {FALSE},
     step : {NoStep}]
    \cup [top : {"dict"}, nb : {"absent", "none", "str"}, has_path : {FALSE},
          has_step : {FALSE}, step : {NoStep}]
    \cup [top : {"dict"}, nb : {"dict"}, has_path : BOOLEAN, has_step : {FALSE},
          step : {NoStep}]
    \cup [top : {"dict"}, nb : {"dict"}, has_path : BOOLEAN, has_step : {TRUE},
          step : StepValues]

\* config.yaml on disk.
ConfigFiles ==
    [state : {"missing", "unreadable", "malformed"}, content : {CHOOSE c \in Configs : c.top = "none"}]
    \cup [state : {"ok"}, content : Configs]

\* The image file image_path names: missing, unreadable (no permission), not
\* a decodable image, or an image of w x h pixels.
ImageSizes ==
    {<<a, b>> : a \in 1..MaxLong, b \in 1..MaxShort}
    \cup {<<b, a>> : a \in 1..MaxLong, b \in 1..MaxShort}
ImageFiles ==
    [state : {"missing", "unreadable", "undecodable"}, size : {<<1, 1>>}]
    \cup [state : {"ok"}, size : ImageSizes]

\* Image.open on an existing image: size = (width, height), pixels of the file.
OpenedImage(f) ==
    [size |-> f.size,
     data |-> [xy \in Raster(f.size[1], f.size[2]) |->
                 PatternPixel("ramp", xy[2], xy[1], f.size[1])]]

\* ---------------------------------------------------------------- failures
NoExc == [type |-> "none", msg |-> "none"]
\* load_config line 30
ExcConfigNotFound == [type |-> "FileNotFoundError", msg |-> "Configuration file not found at path"]
\* validate_config line 52
ExcMissingKey == [type |-> "ValueError", msg |-> "Invalid configuration data. 'image_path' or 'step' is missing."]
\* validate_config line 59
ExcNotInteger == [type |-> "ValueError", msg |-> "The provided step value is not a valid integer"]
\* validate_config line 65, process_image line 137
ExcImageNotFound == [type |-> "FileNotFoundError", msg |-> "Image file not found at path"]
\* validate_config line 68
ExcStepOutOfRange == [type |-> "ValueError", msg |-> "The step value is not within the allowed range"]
\* Failures of the libraries and the interpreter, which pass through untouched.
LibExc(type) == [type |-> type, msg |-> "library"]


\* ------------------------------------------------------------------- state
VARIABLES
    cfgFile,    \* config.yaml on disk
    imgFile,    \* the image file on disk
    pc,         \* main's position: start, loaded, validated, processed,
                \* raised (a failure is propagating to main's except clause),
                \* returned (main returned normally), escaped (main raised)
    last,       \* the operation that ran last
    config,     \* main's local config
    step,       \* main's local step (validate_config's second result)
    exc,        \* the failure that reached main, NoExc if none
    printed,    \* what main's except clause printed, "none" if nothing
    image_np,   \* process_image's local image_np: the aligned buffer
    result,     \* main's local all_images
    handles,    \* the file handles that are open
    pstep,      \* SpecProc: the step of the ImageProcessor under test
    inp,        \* SpecProc: the argument of the last method call
    ret,        \* SpecProc: what the last method call returned
    op          \* SpecProc: the last method call

vars == <<cfgFile, imgFile, pc, last, config, step, exc, printed, image_np,
          result, handles, pstep, inp, ret, op>>
mainVars == <<cfgFile, imgFile, pc, last, config, step, exc, printed, image_np,
              result, handles>>
procVars == <<pstep, inp, ret, op>>

NoConfig == CHOOSE c \in Configs : c.top = "none"
EmptyArray == [shape |-> <<0, 0>>, px |-> [rc \in Grid(0, 0) |-> 0]]
EmptyImage == [size |-> <<0, 0>>, data |-> [xy \in Raster(0, 0) |-> 0]]

\* ------------------------------------------------------------ ConfigLoader
\* Mutant: the missing file's own FileNotFoundError is let through instead
\* of being raised again with the configuration message.
load_config_noreraise(file, open) ==
    LET h == [by |-> "load_config", live |-> TRUE]
    IN  CASE file.state = "missing" ->
               [exc |-> LibExc("FileNotFoundError"), value |-> NoConfig, handles |-> open]
          [] file.state = "unreadable" ->
               [exc |-> LibExc("PermissionError"), value |-> NoConfig, handles |-> open]
          [] file.state = "malformed" ->
               [exc |-> LibExc("YAMLError"), value |-> NoConfig,
                handles |-> (open \cup {h}) \ {h}]
          [] OTHER ->
               [exc |-> NoExc, value |-> file.content,
                handles |-> (open \cup {h}) \ {h}]

\* ConfigLoader.load_config: the failure (NoExc on success), the value
\* returned, and the handles open afterwards. The with block closes the file
\* on every path that opened it.
load_config(file, open) ==
    LET h == [by |-> "load_config", live |-> TRUE]
    IN  CASE file.state = "missing" ->
               [exc |-> ExcConfigNotFound, value |-> NoConfig, handles |-> open]
          [] file.state = "unreadable" ->
               [exc |-> LibExc("PermissionError"), value |-> NoConfig, handles |-> open]
          [] file.state = "malformed" ->
               [exc |-> LibExc("YAMLError"), value |-> NoConfig,
                handles |-> (open \cup {h}) \ {h}]
          [] OTHER ->
               [exc |-> NoExc, value |-> file.content,
                handles |-> (open \cup {h}) \ {h}]

\* config['numpy_basics']['image_path'] and config['numpy_basics']['step']
\* (lines 49-50): "ok", or the exception the subscripts raise.
Lookup(cfg) ==
    CASE cfg.top # "dict"   -> "TypeError"
      [] cfg.nb = "absent"  -> "KeyError"
      [] cfg.nb # "dict"    -> "TypeError"
      [] ~cfg.has_path      -> "KeyError"
      [] ~cfg.has_step      -> "KeyError"
      [] OTHER              -> "ok"

\* int(step_str) (line 57): the integer, or the exception int() raises.
\* A float is truncated toward zero.
py_int(sv) ==
    CASE sv.t \in {"int", "numstr"} -> [exc |-> "ok", v |-> sv.v]
      [] sv.t = "float" ->
           [exc |-> "ok", v |-> IF sv.v >= 0 THEN sv.v \div 10 ELSE -((-sv.v) \div 10)]
      [] sv.t = "badstr" -> [exc |-> "ValueError", v |-> 0]
      [] sv.t = "inf"    -> [exc |-> "OverflowError", v |-> 0]
      [] OTHER           -> [exc |-> "TypeError", v |-> 0]

\* Mutant: the bound is taken from the image's width alone.
max_step_value_width(size) == (size[1] * 2) \div 100

\* int(max(image.size) * 0.02) (line 63). The product is a double; for every
\* n < 3,000,000 int(n * 0.02) equals n * 2 // 100 (the double nearest 0.02 is
\* above 0.02 by less than one part in 2^53, so a multiple of 50 never rounds
\* below its quotient), which is how it is computed here.
max_step_value(size) == (Max(size[1], size[2]) * 2) \div 100

\* ConfigLoader.validate_config: the failure (NoExc on success), the step
\* returned, and whether the image file was opened (it is never closed: line
\* 62 binds it to a local and nothing calls close()).
validate_config(cfg, img) ==
    LET look == Lookup(cfg)
        conv == py_int(cfg.step)
        none == [exc |-> NoExc, step |-> 0, opened |-> FALSE]
    IN  IF look = "KeyError" THEN [none EXCEPT !.exc = ExcMissingKey]
        ELSE IF look # "ok" THEN [none EXCEPT !.exc = LibExc(look)]
        ELSE IF conv.exc = "ValueError" THEN [none EXCEPT !.exc = ExcNotInteger]
        ELSE IF conv.exc # "ok" THEN [none EXCEPT !.exc = LibExc(conv.exc)]
        ELSE IF img.state = "missing" THEN [none EXCEPT !.exc = ExcImageNotFound]
        ELSE IF img.state = "unreadable" THEN [none EXCEPT !.exc = LibExc("PermissionError")]
        ELSE IF img.state = "undecodable"
             THEN [none EXCEPT !.exc = LibExc("UnidentifiedImageError")]
        ELSE IF conv.v < 1 \/ conv.v > max_step_value(img.size)
             THEN [exc |-> ExcStepOutOfRange, step |-> 0, opened |-> TRUE]
        ELSE [exc |-> NoExc, step |-> conv.v, opened |-> TRUE]

\* ImageProcessor.process_image: the failure, the aligned buffer and the
\* composite image. np.array(image) reads the whole file, after which the
\* image library closes the handle Image.open opened.
process_image(s, img) ==
    LET none == [exc |-> NoExc, image_np |-> EmptyArray, value |-> EmptyImage]
    IN  CASE img.state = "missing" -> [none EXCEPT !.exc = ExcImageNotFound]
          [] img.state = "unreadable" -> [none EXCEPT !.exc = LibExc("PermissionError")]
          [] img.state = "undecodable" ->
               [none EXCEPT !.exc = LibExc("UnidentifiedImageError")]
          [] OTHER ->
               [exc |-> NoExc,
                image_np |-> adjust_image_size(s, np_array(OpenedImage(img))),
                value |-> process_pixels(s, OpenedImage(img))]

\* The exception classes main's except clause names (line 159).
Caught == {"FileNotFoundError", "ValueError"}


\* -------------------------------------------------------------- main (Spec)
MainIdle ==
    /\ pc = "start" /\ last = "none" /\ config = NoConfig /\ step = 0
    /\ exc = NoExc /\ printed = "none"
    /\ image_np = EmptyArray /\ result = EmptyImage /\ handles = {}

ProcIdle ==
    /\ pstep = 1 /\ inp = EmptyArray /\ ret = EmptyArray /\ op = "none"

Init ==
    /\ cfgFile \in ConfigFiles
    /\ imgFile \in ImageFiles
    /\ MainIdle
    /\ ProcIdle

\* line 154: config = ConfigLoader.load_config(config_path)
LoadConfig ==
    /\ pc = "start"
    /\ LET r == load_config(cfgFile, handles)
       IN  /\ exc' = r.exc
           /\ config' = r.value
           /\ handles' = r.handles
           /\ pc' = IF r.exc = NoExc THEN "loaded" ELSE "raised"
    /\ last' = "load_config"
    /\ UNCHANGED <<cfgFile, imgFile, step, printed, image_np, result>>
    /\ UNCHANGED procVars

\* line 155: image_path, step = ConfigLoader.validate_config(config).
\* The image handle validate_config opened is still referenced by the frame
\* the traceback holds while a failure propagates; after a normal return
\* nothing references it and it stays open until the collector finds it.
ValidateConfig ==
    /\ pc = "loaded"
    /\ LET r == validate_config(config, imgFile)
       IN  /\ exc' = r.exc
           /\ step' = r.step
           /\ handles' = IF r.opened
                         THEN handles \cup {[by |-> "validate_config",
                                             live |-> (r.exc # NoExc)]}
                         ELSE handles
           /\ pc' = IF r.exc = NoExc THEN "validated" ELSE "raised"
    /\ last' = "validate_config"
    /\ UNCHANGED <<cfgFile, imgFile, config, printed, image_np, result>>
    /\ UNCHANGED procVars

\* The image file is deleted between validation and processing (the file
\* system is not under the program's control).
EnvRemoveImage ==
    /\ pc = "validated"
    /\ imgFile.state = "ok"
    /\ imgFile' = [state |-> "missing", size |-> <<1, 1>>]
    /\ last' = "env"
    /\ UNCHANGED <<cfgFile, pc, config, step, exc, printed, image_np, result, handles>>
    /\ UNCHANGED procVars

\* lines 156-157: processor = ImageProcessor(step);
\* all_images = processor.process_image(image_path)
ProcessImage ==
    /\ pc = "validated"
    /\ LET r == process_image(step, imgFile)
       IN  /\ exc' = r.exc
           /\ image_np' = r.image_np
           /\ result' = r.value
           /\ pc' = IF r.exc = NoExc THEN "processed" ELSE "raised"
    /\ last' = "process_image"
    /\ UNCHANGED <<cfgFile, imgFile, config, step, printed, handles>>
    /\ UNCHANGED procVars

\* line 158: all_images.show()
Show ==
    /\ pc = "processed"
    /\ pc' = "returned"
    /\ last' = "show"
    /\ UNCHANGED <<cfgFile, imgFile, config, step, exc, printed, image_np, result, handles>>
    /\ UNCHANGED procVars

\* lines 159-160: except (FileNotFoundError, ValueError) as e: print(e).
\* Any other exception leaves main. Once the exception is gone the frames
\* its traceback held are gone too.
Except ==
    /\ pc = "raised"
    /\ IF exc.type \in Caught
       THEN /\ printed' = exc.msg
            /\ pc' = "returned"
       ELSE /\ printed' = printed
            /\ pc' = "escaped"
    /\ handles' = {[h EXCEPT !.live = FALSE] : h \in handles}
    /\ last' = "except"
    /\ UNCHANGED <<cfgFile, imgFile, config, step, exc, image_np, result>>
    /\ UNCHANGED procVars

\* The garbage collector closes a handle nothing references any more.
Collect ==
    /\ \E h \in handles :
          /\ ~h.live
          /\ handles' = handles \ {h}
    /\ UNCHANGED <<cfgFile, imgFile, pc, last, config, step, exc, printed, image_np, result>>
    /\ UNCHANGED procVars

Next ==
    \/ LoadConfig
    \/ ValidateConfig
    \/ EnvRemoveImage
    \/ ProcessImage
    \/ Show
    \/ Except
    \/ Collect

Spec == Init /\ [][Next]_vars

\* ------------------------------------------------ ImageProcessor (SpecProc)
\* The caller's np.array(...) of a returned PIL image; an ndarray is itself.
AsArray(v) == IF "shape" \in DOMAIN v THEN v ELSE np_array(v)

InitProc ==
    /\ cfgFile = [state |-> "missing", content |-> NoConfig]
    /\ imgFile = [state |-> "missing", size |-> <<1, 1>>]
    /\ MainIdle
    /\ pstep \in 1..MaxStep
    /\ \E p \in Patterns, h \in 1..MaxH, w \in 1..MaxW :
          /\ inp = PatternArray(p, h, w)
          /\ ret = PatternArray(p, h, w)
    /\ op = "init"

\* processor.adjust_image_size(buffer)
AdjustImageSize ==
    /\ inp' = AsArray(ret)
    /\ ret' = adjust_image_size(pstep, AsArray(ret))
    /\ op' = "adjust_image_size"
    /\ UNCHANGED pstep
    /\ UNCHANGED mainVars

\* processor.cut_image(buffer, axis)
CutImage ==
    /\ \E axis \in {0, 1} :
          /\ inp' = AsArray(ret)
          /\ ret' = cut_image(pstep, AsArray(ret), axis)
          /\ op' = IF axis = 0 THEN "cut_image_0" ELSE "cut_image_1"
    /\ UNCHANGED pstep
    /\ UNCHANGED mainVars

\* processor.process_image(path) on an image file holding the buffer's pixels
\* (an image file has at least one row and one column).
ProcessBuffer ==
    /\ AsArray(ret).shape[1] \in 1..MaxH
    /\ AsArray(ret).shape[2] \in 1..MaxW
    /\ inp' = AsArray(ret)
    /\ ret' = process_pixels(pstep, fromarray(AsArray(ret)))
    /\ op' = "process_image"
    /\ UNCHANGED pstep
    /\ UNCHANGED mainVars

NextProc ==
    \/ AdjustImageSize
    \/ CutImage
    \/ ProcessBuffer

SpecProc == InitProc /\ [][NextProc]_vars


\* ================================================================== claims
\* Reference definitions the claims are stated with (not models of code).

\* The top-left h x w corner of buffer b.
RefCorner(b, h, w) ==
    [shape |-> <<h, w>>, px |-> [rc \in (1..h) \X (1..w) |-> b.px[rc]]]

\* The largest multiple of s that is at most n.
RefFloorMultiple(n, s) == CHOOSE m \in 0..n : m % s = 0 /\ n - s < m

\* Whether 0-based position i lies in an even band of width s.
RefEven(i, s) == (i \div s) % 2 = 0

\* Where a stable partition (even bands first) of 0..n-1 puts position i.
RefDest(i, n, s) ==
    IF RefEven(i, s)
    THEN Cardinality({j \in 0..(i - 1) : RefEven(j, s)})
    ELSE Cardinality({j \in 0..(n - 1) : RefEven(j, s)})
         + Cardinality({j \in 0..(i - 1) : ~RefEven(j, s)})

\* The position the stable partition takes output position j from.
RefSrc(j, n, s) == CHOOSE i \in 0..(n - 1) : RefDest(i, n, s) = j

\* Buffer b with the positions of one axis stably partitioned.
RefInterleave(b, s, axis) ==
    [shape |-> b.shape,
     px |-> [rc \in (1..b.shape[1]) \X (1..b.shape[2]) |->
               IF axis = 0
               THEN b.px[<<RefSrc(rc[1] - 1, b.shape[1], s) + 1, rc[2]>>]
               ELSE b.px[<<rc[1], RefSrc(rc[2] - 1, b.shape[2], s) + 1>>]]]

CutAxis == IF op = "cut_image_0" THEN 0 ELSE 1
IsCut == op \in {"cut_image_0", "cut_image_1"}
Aligned(b, s) == b.shape[1] % s = 0 /\ b.shape[2] % s = 0

\* ---- C4 (SpecProc) ----
\* C4: adjust_image_size returns the top-left sub-buffer whose height and
\* width are exact multiples of step, each at most the original extent and
\* more than the original extent minus step, with every pixel equal to the
\* input pixel at the same position.
C4_AlignCropsToMultiples ==
    op = "adjust_image_size" =>
        LET h  == inp.shape[1]
            w  == inp.shape[2]
            h2 == ret.shape[1]
            w2 == ret.shape[2]
        IN  /\ h2 % pstep = 0 /\ w2 % pstep = 0
            /\ h - pstep < h2 /\ h2 <= h
            /\ w - pstep < w2 /\ w2 <= w
            /\ DOMAIN ret.px = (1..h2) \X (1..w2)
            /\ \A rc \in (1..h2) \X (1..w2) : ret.px[rc] = inp.px[rc]

\* C4 witness: a 4 x 4 buffer aligned to step 3 is cropped to 3 x 3.
C4_Witness ==
    /\ op = "adjust_image_size" /\ pstep = 3
    /\ inp.shape = <<4, 4>> /\ ret.shape = <<3, 3>>
    /\ inp.px[<<2, 2>>] = 5

\* ---- C5 (SpecProc) ----
\* C5: on an aligned buffer cut_image returns a buffer of the same extent on
\* both axes whose positions along the chosen axis are a permutation of the
\* input positions: each input position is used exactly once, positions of
\* even bands come before positions of odd bands, positions of one group keep
\* their relative order, and the other axis keeps its order.
C5_InterleaveIsStablePartition ==
    (IsCut /\ Aligned(inp, pstep)) =>
        LET out == np_array(ret)
            n   == inp.shape[CutAxis + 1]
            src == [j \in 0..(n - 1) |-> RefSrc(j, n, pstep)]
        IN  /\ out.shape = inp.shape
            /\ {src[j] : j \in 0..(n - 1)} = 0..(n - 1)
            /\ \A j1, j2 \in 0..(n - 1) :
                  j1 < j2 =>
                     /\ ~(RefEven(src[j2], pstep) /\ ~RefEven(src[j1], pstep))
                     /\ (RefEven(src[j1], pstep) = RefEven(src[j2], pstep)
                           => src[j1] < src[j2])
            /\ \A r \in 1..inp.shape[1], c \in 1..inp.shape[2] :
                  out.px[<<r, c>>] =
                     IF CutAxis = 0 THEN inp.px[<<src[r - 1] + 1, c>>]
                     ELSE inp.px[<<r, src[c - 1] + 1>>]

\* C5 witness: four columns cut with step 1 come out in the order 0, 2, 1, 3.
C5_Witness ==
    /\ op = "cut_image_1" /\ pstep = 1 /\ inp.shape = <<2, 4>>
    /\ inp.px[<<1, 2>>] = 1 /\ inp.px[<<1, 3>>] = 2
    /\ ret.data[<<2, 1>>] = 2 /\ ret.data[<<3, 1>>] = 1

\* ---- C6 (SpecProc) ----
\* C6: process_image returns an image of height 3 * aligned height and of the
\* aligned width whose three row blocks are, from the top: the aligned base;
\* the base interleaved along the columns; that column-interleaved block
\* interleaved along the rows.
C6_CompositeIsThreeBlocks ==
    op = "process_image" =>
        LET bh   == RefFloorMultiple(inp.shape[1], pstep)
            bw   == RefFloorMultiple(inp.shape[2], pstep)
            base == RefCorner(inp, bh, bw)
            vert == RefInterleave(base, pstep, 1)
            horz == RefInterleave(vert, pstep, 0)
            out  == np_array(ret)
        IN  /\ ret.size = <<bw, 3 * bh>>
            /\ out.shape = <<3 * bh, bw>>
            /\ \A r \in 1..bh, c \in 1..bw :
                  /\ out.px[<<r, c>>] = base.px[<<r, c>>]
                  /\ out.px[<<bh + r, c>>] = vert.px[<<r, c>>]
                  /\ out.px[<<2 * bh + r, c>>] = horz.px[<<r, c>>]

\* C6 witness: a 4 x 4 ramp processed with step 1 gives a 12-row composite
\* whose third block has both axes reordered.
C6_Witness ==
    /\ op = "process_image" /\ pstep = 1
    /\ inp.shape = <<4, 4>> /\ inp.px[<<3, 3>>] = 10
    /\ ret.size = <<4, 12>>
    /\ ret.data[<<2, 10>>] = 10

\* ---- C7 (SpecProc) ----
\* C7 as stated: with step equal to the buffer's extent along the axis,
\* cut_image along that axis returns the input buffer.
C7_SingleBandIsIdentity ==
    (IsCut /\ pstep = inp.shape[CutAxis + 1]) => np_array(ret) = inp

\* C7 amended: with step equal to the buffer's extent along the axis,
\* cut_image along that axis reorders nothing and returns the input cropped
\* on the other axis to a multiple of step; it returns the input buffer
\* itself when the other extent is a multiple of step.
C7_SingleBandIsAlignOnly ==
    (IsCut /\ pstep = inp.shape[CutAxis + 1]) =>
        LET out   == np_array(ret)
            other == 2 - CutAxis
            m     == RefFloorMultiple(inp.shape[other], pstep)
        IN  /\ out.shape[CutAxis + 1] = pstep
            /\ out.shape[other] = m
            /\ out = RefCorner(inp, out.shape[1], out.shape[2])
            /\ (inp.shape[other] % pstep = 0 => out = inp)

\* C7 witness: a 3 x 2 buffer cut along its columns with step 2 (one band of
\* columns) loses its third row.
C7_Witness ==
    /\ op = "cut_image_1" /\ pstep = 2
    /\ inp.shape = <<3, 2>> /\ inp.px[<<3, 1>>] = 4
    /\ ret.size = <<2, 2>>


\* ---------------------------------------------------------- claims on main
\* Both keys can be looked up: the document and numpy_basics are mappings
\* and numpy_basics holds image_path and step.
HasBothKeys(cfg) ==
    cfg.top = "dict" /\ cfg.nb = "dict" /\ cfg.has_path /\ cfg.has_step

\* int() accepts the step value.
Coercible(sv) == sv.t \in {"int", "numstr", "float"}

\* The failure kinds of the specification, as the exceptions the code raises
\* for them.
ConfigNotFound == {ExcConfigNotFound}
InvalidConfig == {ExcMissingKey, ExcNotInteger}
ImageNotFound == {ExcImageNotFound}
StepOutOfRange == {ExcStepOutOfRange}
FailureKinds == {ConfigNotFound, InvalidConfig, ImageNotFound, StepOutOfRange}

\* ---- C1 (Spec) ----
\* C1: for a configuration with both keys, a step int() accepts and an
\* existing image of width w and height h, validate_config returns
\* (image_path, step) if and only if 1 <= step <= floor(0.02 * max(w, h)),
\* that is 1 <= step and 50 * step <= max(w, h); otherwise it fails with
\* StepOutOfRange.
C1_AcceptsIffStepInRange ==
    (/\ last = "validate_config"
     /\ HasBothKeys(config)
     /\ Coercible(config.step)
     /\ imgFile.state = "ok") =>
        LET s == py_int(config.step).v
            m == Max(imgFile.size[1], imgFile.size[2])
        IN  /\ (pc = "validated" /\ exc = NoExc /\ step = s)
                  <=> (1 <= s /\ 50 * s <= m)
            /\ pc # "validated" => (pc = "raised" /\ exc \in StepOutOfRange)

\* C1 witness: step 2 is accepted for a 1 x 100 image, whose bound is 2.
C1_Witness ==
    /\ last = "validate_config" /\ pc = "validated"
    /\ imgFile.state = "ok" /\ imgFile.size = <<1, 100>>
    /\ config.step = [t |-> "numstr", v |-> 2] /\ step = 2

\* ---- C2 (Spec) ----
\* C2: validate_config reports the first failure of a fixed order: a missing
\* image_path or step key gives InvalidConfig whatever else is wrong;
\* otherwise a step that cannot be coerced to an integer gives InvalidConfig
\* even when the image file is missing; otherwise a missing image file gives
\* ImageNotFound for every step; StepOutOfRange only when the image exists.
C2_ChecksInFixedOrder ==
    last = "validate_config" =>
        /\ IF ~HasBothKeys(config)
           THEN pc = "raised" /\ exc \in InvalidConfig
           ELSE IF ~Coercible(config.step)
           THEN pc = "raised" /\ exc \in InvalidConfig
           ELSE IF imgFile.state = "missing"
           THEN pc = "raised" /\ exc \in ImageNotFound
           ELSE TRUE
        /\ exc \in StepOutOfRange => imgFile.state = "ok"

\* C2, restricted to the configurations of the specification's data model (a
\* mapping whose numpy_basics, when present, is a mapping, and a step that is
\* an integer or a string): there the order holds.
C2_ChecksInFixedOrderOnTypedConfig ==
    (/\ last = "validate_config"
     /\ config.top = "dict" /\ config.nb \in {"absent", "dict"}
     /\ config.step.t \in {"int", "numstr", "badstr"}
     /\ (config.has_step \/ config.step = NoStep)) =>
        /\ IF ~HasBothKeys(config)
           THEN pc = "raised" /\ exc = ExcMissingKey
           ELSE IF ~Coercible(config.step)
           THEN pc = "raised" /\ exc = ExcNotInteger
           ELSE IF imgFile.state = "missing"
           THEN pc = "raised" /\ exc = ExcImageNotFound
           ELSE TRUE
        /\ exc \in StepOutOfRange => imgFile.state = "ok"

C8_HandlesReleased ==
    last \in {"load_config", "validate_config", "process_image"} =>
        \A h \in handles : h.by # last

\* ---- C9 (Spec) ----
\* C9: main never lets a failure escape: for every content of a readable
\* config.yaml (and for a missing one) and every state of the image file,
\* every failure is caught, its message printed, and main returns normally.
C9_MainNeverRaises ==
    cfgFile.state # "unreadable" =>
        /\ pc # "escaped"
        /\ (pc = "returned" /\ exc # NoExc) => printed = exc.msg

\* ---- C10 (Spec) ----
\* C10: for every step validate_config accepted, the aligned buffer
\* process_image works on has a height and a width of at least step.
C10_AlignedBufferNonEmpty ==
    (last = "process_image" /\ pc = "processed") =>
        /\ image_np.shape[1] >= step
        /\ image_np.shape[2] >= step

====
